---- MODULE Spec2Model ----
(***************************************************************************)
(* Galileo Asset Tokeniser API (src/main.py): two in-memory stores, Assets *)
(* and pNFTs, two auto-incrementing counters, and the HTTP handlers that   *)
(* read and write them.  Each handler is one action: it runs from its      *)
(* first statement to its return, and records the request it served in req *)
(* and the HTTP response it gave in resp.                                  *)
(*                                                                         *)
(*   Spec          the handlers, one request served after the other        *)
(*   SpecTokenUri  the helper generate_token_uri alone                     *)
(*   SpecAsync     create_asset, create_pnft and transfer_pnft statement   *)
(*                 by statement, as tasks of the event loop                *)
(***************************************************************************)
EXTENDS Integers, Sequences, FiniteSets, TLC

VARIABLES
    assets_db,      \* list of Asset records, in append order
    pnfts_db,       \* list of pNFT records, in append order
    asset_counter,  \* last Asset id handed out
    pnft_counter,   \* last pNFT id handed out
    req,            \* the request the last handler served
    resp,           \* the response the last handler returned
    asset_log,      \* history: <<body, response>> of every create_asset that returned 200
    pnft_log,       \* history: the ids returned by every create_pnft that returned 200
    owner_log,      \* history: per pNFT id, the owner named by the last create_pnft or
                    \* transfer_pnft of that id that returned 200
    tasks,          \* requests in flight: per task its handler, its position in it
                    \* and its local variables
    running         \* the task the event loop is executing, 0 when it executes none

vars == <<assets_db, pnfts_db, asset_counter, pnft_counter, req, resp,
          asset_log, pnft_log, owner_log, tasks, running>>

stores == <<assets_db, pnfts_db, asset_counter, pnft_counter>>

\* The event loop's state.  The handlers below that run as one step leave it
\* alone.
loop == <<tasks, running>>

(* ------------------------------ bounds --------------------------------- *)

\* create_asset is taken at most MaxAssets times, create_pnft succeeds at most
\* MaxPnfts times.
MaxAssets == 2
MaxPnfts == 2

\* Number of requests that arrive when requests are served as tasks of the
\* event loop.
MaxTasks == 3

(* --------------------------- input domains ----------------------------- *)

\* Optional[T]: None, or one value.
None == << >>
Some(x) == <<x>>

\* Path parameters and asset_id values: a negative id, 0, every id the stores
\* can hold, and an id beyond anything the counters reach.
Ids == -1 .. ((IF MaxAssets > MaxPnfts THEN MaxAssets ELSE MaxPnfts) + 1)

\* Owner strings of request bodies.
Owners == {"Alice", "Bob"}

\* Values of the owner query parameter of GET /pnfts: absent, or a string,
\* the empty string (GET /pnfts?owner=) being one.
OwnerFilters == {None} \cup {Some(o) : o \in Owners \cup {""}}

TokenUris == {"ipfs://x"}

\* What datetime.now().isoformat() returns.
Timestamps == {"2025-01-01T00:00:00"}

\* Request bodies of POST /assets: two assets with the same serial number.
AssetCreate ==
    { [name |-> "Watch", serial_number |-> "SN1", description |-> "Luxury watch", owner |-> "Alice"],
      [name |-> "Ring", serial_number |-> "SN1", description |-> "Gold ring", owner |-> "Bob"] }

\* Request bodies of POST /pnfts.
pNFTCreate ==
    [asset_id : Ids, token_uri : TokenUris, current_owner : Owners]

\* Request bodies of POST /pnfts/{id}/transfer.
pNFTTransfer == [new_owner : Owners]

(* ------------------------------ helpers -------------------------------- *)

\* Python truthiness of an Optional[str]: None and "" are falsy.
Truthy(opt) == opt # None /\ opt[1] # ""

\* A linear scan "for x in db: if x.id == id: ..." stopping at the first hit:
\* the position of the first record of db whose id is id, 0 when there is none.
first_index(db, id) ==
    IF \E i \in 1..Len(db) : db[i].id = id
    THEN CHOOSE i \in 1..Len(db) :
            /\ db[i].id = id
            /\ \A j \in 1..(i - 1) : db[j].id # id
    ELSE 0

\* db[id - 1] as Python evaluates it, IndexError giving None: a lookup by
\* position instead of a scan.  A negative index counts from the end.
python_index(db, id) ==
    IF 0 <= id - 1 /\ id - 1 < Len(db) THEN id
    ELSE IF id - 1 < 0 /\ -(id - 1) <= Len(db) THEN Len(db) + (id - 1) + 1
    ELSE 0

get_asset_by_position(db, asset_id) == python_index(db, asset_id)

get_pnft_by_position(db, pnft_id) == python_index(db, pnft_id)

\* The helpers return the stored object itself, not a copy.  A reference to a
\* stored object is modelled as its position in the list, and None as 0.
get_asset_by_id(db, asset_id) == first_index(db, asset_id)

get_pnft_by_id(db, pnft_id) == first_index(db, pnft_id)

\* [x for x in db if x.current_owner == owner]
RECURSIVE filter_owner(_, _)
filter_owner(db, owner) ==
    IF db = << >> THEN << >>
    ELSE IF Head(db).current_owner = owner
         THEN <<Head(db)>> \o filter_owner(Tail(db), owner)
         ELSE filter_owner(Tail(db), owner)

\* HTTPException(status_code=404, detail=f"{kind} with ID {id} not found")
NotFound(kind, id) ==
    [status |-> 404, detail |-> <<kind \o " with ID ", id, " not found">>]

\* A handler's return value, sent with status 200.
Ok(body) == [status |-> 200, body |-> body]

(* ------------------------------- state --------------------------------- *)

Init ==
    /\ assets_db = << >>
    /\ pnfts_db = << >>
    /\ asset_counter = 0
    /\ pnft_counter = 0
    /\ req = [op |-> "start"]
    /\ resp = [status |-> 0]
    /\ asset_log = << >>
    /\ pnft_log = << >>
    /\ owner_log = << >>
    /\ tasks = [t \in 1..MaxTasks |-> [pc |-> "idle", op |-> "none", args |-> << >>, local |-> << >>]]
    /\ running = 0

(* ------------------------------ handlers ------------------------------- *)

\* create_asset without "global asset_counter" taking effect: the id is computed
\* from the counter, but the counter is not advanced.
create_asset_counter_not_advanced ==
    \E asset \in AssetCreate :
        /\ Len(assets_db) < MaxAssets
        /\ LET new_asset == [id |-> asset_counter + 1,
                             name |-> asset.name,
                             serial_number |-> asset.serial_number,
                             description |-> asset.description,
                             owner |-> asset.owner]
           IN /\ asset_counter' = asset_counter
              /\ assets_db' = Append(assets_db, new_asset)
              /\ req' = [op |-> "create_asset", asset |-> asset]
              /\ UNCHANGED loop
              /\ resp' = Ok(new_asset)
              /\ asset_log' = Append(asset_log, <<asset, new_asset>>)
        /\ UNCHANGED <<pnfts_db, pnft_counter, pnft_log, owner_log>>

\* create_asset with its name and description arguments exchanged.
create_asset_fields_swapped ==
    \E asset \in AssetCreate :
        /\ asset_counter < MaxAssets
        /\ LET new_asset == [id |-> asset_counter + 1,
                             name |-> asset.description,
                             serial_number |-> asset.serial_number,
                             description |-> asset.name,
                             owner |-> asset.owner]
           IN /\ asset_counter' = asset_counter + 1
              /\ assets_db' = Append(assets_db, new_asset)
              /\ req' = [op |-> "create_asset", asset |-> asset]
              /\ UNCHANGED loop
              /\ resp' = Ok(new_asset)
              /\ asset_log' = Append(asset_log, <<asset, new_asset>>)
        /\ UNCHANGED <<pnfts_db, pnft_counter, pnft_log, owner_log>>

\* create_asset refusing a serial number that is already stored.
create_asset_unique_serial ==
    \E asset \in AssetCreate :
        /\ asset_counter < MaxAssets
        /\ req' = [op |-> "create_asset", asset |-> asset]
        /\ UNCHANGED loop
        /\ IF \E i \in 1..Len(assets_db) : assets_db[i].serial_number = asset.serial_number
           THEN /\ resp' = [status |-> 409, detail |-> <<"duplicate serial number">>]
                /\ UNCHANGED <<assets_db, asset_counter, asset_log>>
           ELSE LET new_asset == [id |-> asset_counter + 1,
                                  name |-> asset.name,
                                  serial_number |-> asset.serial_number,
                                  description |-> asset.description,
                                  owner |-> asset.owner]
                IN /\ asset_counter' = asset_counter + 1
                   /\ assets_db' = Append(assets_db, new_asset)
                   /\ resp' = Ok(new_asset)
                   /\ asset_log' = Append(asset_log, <<asset, new_asset>>)
        /\ UNCHANGED <<pnfts_db, pnft_counter, pnft_log, owner_log>>

\* POST /assets
create_asset ==
    \E asset \in AssetCreate :
        /\ asset_counter < MaxAssets
        /\ LET new_asset == [id |-> asset_counter + 1,
                             name |-> asset.name,
                             serial_number |-> asset.serial_number,
                             description |-> asset.description,
                             owner |-> asset.owner]
           IN /\ asset_counter' = asset_counter + 1
              /\ assets_db' = Append(assets_db, new_asset)
              /\ req' = [op |-> "create_asset", asset |-> asset]
              /\ UNCHANGED loop
              /\ resp' = Ok(new_asset)
              /\ asset_log' = Append(asset_log, <<asset, new_asset>>)
        /\ UNCHANGED <<pnfts_db, pnft_counter, pnft_log, owner_log>>

\* create_pnft advancing pnft_counter before it validates the asset.
create_pnft_count_first ==
    \E pnft \in pNFTCreate, now \in Timestamps :
        /\ pnft_counter < MaxPnfts
        /\ req' = [op |-> "create_pnft", pnft |-> pnft]
        /\ UNCHANGED loop
        /\ pnft_counter' = pnft_counter + 1
        /\ IF get_asset_by_id(assets_db, pnft.asset_id) = 0
           THEN /\ resp' = NotFound("Asset", pnft.asset_id)
                /\ UNCHANGED <<pnfts_db, pnft_log, owner_log>>
           ELSE LET new_pnft == [id |-> pnft_counter + 1,
                                 asset_id |-> pnft.asset_id,
                                 token_uri |-> pnft.token_uri,
                                 issued_date |-> now,
                                 current_owner |-> pnft.current_owner]
                IN /\ pnfts_db' = Append(pnfts_db, new_pnft)
                   /\ resp' = Ok(new_pnft)
                   /\ pnft_log' = Append(pnft_log, new_pnft.id)
                   /\ owner_log' = (new_pnft.id :> pnft.current_owner) @@ owner_log
        /\ UNCHANGED <<assets_db, asset_counter, asset_log>>

\* create_pnft refusing an Asset that already has a pNFT.
create_pnft_one_per_asset ==
    \E pnft \in pNFTCreate, now \in Timestamps :
        /\ req' = [op |-> "create_pnft", pnft |-> pnft]
        /\ UNCHANGED loop
        /\ IF get_asset_by_id(assets_db, pnft.asset_id) = 0
           THEN /\ resp' = NotFound("Asset", pnft.asset_id)
                /\ UNCHANGED <<pnfts_db, pnft_counter, pnft_log, owner_log>>
           ELSE IF \E i \in 1..Len(pnfts_db) : pnfts_db[i].asset_id = pnft.asset_id
           THEN /\ resp' = [status |-> 409, detail |-> <<"asset already tokenized">>]
                /\ UNCHANGED <<pnfts_db, pnft_counter, pnft_log, owner_log>>
           ELSE /\ pnft_counter < MaxPnfts
                /\ LET new_pnft == [id |-> pnft_counter + 1,
                                    asset_id |-> pnft.asset_id,
                                    token_uri |-> pnft.token_uri,
                                    issued_date |-> now,
                                    current_owner |-> pnft.current_owner]
                   IN /\ pnft_counter' = pnft_counter + 1
                      /\ pnfts_db' = Append(pnfts_db, new_pnft)
                      /\ resp' = Ok(new_pnft)
                      /\ pnft_log' = Append(pnft_log, new_pnft.id)
                      /\ owner_log' = (new_pnft.id :> pnft.current_owner) @@ owner_log
        /\ UNCHANGED <<assets_db, asset_counter, asset_log>>

\* POST /pnfts
create_pnft ==
    \E pnft \in pNFTCreate, now \in Timestamps :
        /\ req' = [op |-> "create_pnft", pnft |-> pnft]
        /\ UNCHANGED loop
        /\ IF get_asset_by_id(assets_db, pnft.asset_id) = 0
           THEN /\ resp' = NotFound("Asset", pnft.asset_id)
                /\ UNCHANGED <<pnfts_db, pnft_counter, pnft_log, owner_log>>
           ELSE /\ pnft_counter < MaxPnfts
                /\ LET new_pnft == [id |-> pnft_counter + 1,
                                    asset_id |-> pnft.asset_id,
                                    token_uri |-> pnft.token_uri,
                                    issued_date |-> now,
                                    current_owner |-> pnft.current_owner]
                   IN /\ pnft_counter' = pnft_counter + 1
                      /\ pnfts_db' = Append(pnfts_db, new_pnft)
                      /\ resp' = Ok(new_pnft)
                      /\ pnft_log' = Append(pnft_log, new_pnft.id)
                      /\ owner_log' = (new_pnft.id :> pnft.current_owner) @@ owner_log
        /\ UNCHANGED <<assets_db, asset_counter, asset_log>>

\* GET /pnfts?owner=...
list_pnfts ==
    \E owner \in OwnerFilters :
        /\ req' = [op |-> "list_pnfts", owner |-> owner]
        /\ UNCHANGED loop
        /\ resp' = IF Truthy(owner)
                   THEN Ok(filter_owner(pnfts_db, owner[1]))
                   ELSE Ok(pnfts_db)
        /\ UNCHANGED <<stores, asset_log, pnft_log, owner_log>>

\* GET /pnfts/{pnft_id}
get_pnft ==
    \E pnft_id \in Ids :
        /\ req' = [op |-> "get_pnft", pnft_id |-> pnft_id]
        /\ UNCHANGED loop
        /\ resp' = IF get_pnft_by_id(pnfts_db, pnft_id) = 0
                   THEN NotFound("pNFT", pnft_id)
                   ELSE Ok(pnfts_db[get_pnft_by_id(pnfts_db, pnft_id)])
        /\ UNCHANGED <<stores, asset_log, pnft_log, owner_log>>

\* transfer_pnft that also stamps the record with the time of the transfer and
\* writes the updated record to every pNFT of the same asset.
transfer_pnft_restamp ==
    \E pnft_id \in Ids, transfer \in pNFTTransfer :
        /\ req' = [op |-> "transfer_pnft", pnft_id |-> pnft_id, transfer |-> transfer]
        /\ UNCHANGED loop
        /\ LET pnft == get_pnft_by_id(pnfts_db, pnft_id)
           IN IF pnft = 0
              THEN /\ resp' = NotFound("pNFT", pnft_id)
                   /\ UNCHANGED <<pnfts_db, owner_log>>
              ELSE LET mutated == [pnfts_db EXCEPT ![pnft].current_owner = transfer.new_owner,
                                                   ![pnft].issued_date = "transferred"]
                   IN /\ pnfts_db' = [j \in 1..Len(mutated) |->
                                        IF mutated[j].asset_id = mutated[pnft].asset_id
                                        THEN [mutated[j] EXCEPT !.current_owner = transfer.new_owner]
                                        ELSE mutated[j]]
                      /\ resp' = Ok(mutated[pnft])
                      /\ owner_log' = (pnft_id :> transfer.new_owner) @@ owner_log
        /\ UNCHANGED <<assets_db, asset_counter, pnft_counter, asset_log, pnft_log>>

\* transfer_pnft that also hands the referenced Asset to the new owner.
transfer_pnft_updates_asset ==
    \E pnft_id \in Ids, transfer \in pNFTTransfer :
        /\ req' = [op |-> "transfer_pnft", pnft_id |-> pnft_id, transfer |-> transfer]
        /\ UNCHANGED loop
        /\ LET pnft == get_pnft_by_id(pnfts_db, pnft_id)
           IN IF pnft = 0
              THEN /\ resp' = NotFound("pNFT", pnft_id)
                   /\ UNCHANGED <<pnfts_db, assets_db, owner_log>>
              ELSE LET mutated == [pnfts_db EXCEPT ![pnft].current_owner = transfer.new_owner]
                       asset == get_asset_by_id(assets_db, pnfts_db[pnft].asset_id)
                   IN /\ pnfts_db' = mutated
                      /\ assets_db' = IF asset = 0 THEN assets_db
                                      ELSE [assets_db EXCEPT ![asset].owner = transfer.new_owner]
                      /\ resp' = Ok(mutated[pnft])
                      /\ owner_log' = (pnft_id :> transfer.new_owner) @@ owner_log
        /\ UNCHANGED <<asset_counter, pnft_counter, asset_log, pnft_log>>

\* transfer_pnft that removes the record and appends the updated one.
transfer_pnft_reappend ==
    \E pnft_id \in Ids, transfer \in pNFTTransfer :
        /\ req' = [op |-> "transfer_pnft", pnft_id |-> pnft_id, transfer |-> transfer]
        /\ UNCHANGED loop
        /\ LET pnft == get_pnft_by_id(pnfts_db, pnft_id)
           IN IF pnft = 0
              THEN /\ resp' = NotFound("pNFT", pnft_id)
                   /\ UNCHANGED <<pnfts_db, owner_log>>
              ELSE LET mutated == [pnfts_db EXCEPT ![pnft].current_owner = transfer.new_owner]
                   IN /\ pnfts_db' = Append(SubSeq(mutated, 1, pnft - 1)
                                                \o SubSeq(mutated, pnft + 1, Len(mutated)),
                                            mutated[pnft])
                      /\ resp' = Ok(mutated[pnft])
                      /\ owner_log' = (pnft_id :> transfer.new_owner) @@ owner_log
        /\ UNCHANGED <<assets_db, asset_counter, pnft_counter, asset_log, pnft_log>>

\* transfer_pnft changing a copy of the record and not writing it back.
transfer_pnft_on_copy ==
    \E pnft_id \in Ids, transfer \in pNFTTransfer :
        /\ req' = [op |-> "transfer_pnft", pnft_id |-> pnft_id, transfer |-> transfer]
        /\ UNCHANGED loop
        /\ LET pnft == get_pnft_by_id(pnfts_db, pnft_id)
           IN IF pnft = 0
              THEN /\ resp' = NotFound("pNFT", pnft_id)
                   /\ UNCHANGED <<pnfts_db, owner_log>>
              ELSE /\ UNCHANGED pnfts_db
                   /\ resp' = Ok([pnfts_db[pnft] EXCEPT !.current_owner = transfer.new_owner])
                   /\ owner_log' = (pnft_id :> transfer.new_owner) @@ owner_log
        /\ UNCHANGED <<assets_db, asset_counter, pnft_counter, asset_log, pnft_log>>

\* POST /pnfts/{pnft_id}/transfer
transfer_pnft ==
    \E pnft_id \in Ids, transfer \in pNFTTransfer :
        /\ req' = [op |-> "transfer_pnft", pnft_id |-> pnft_id, transfer |-> transfer]
        /\ UNCHANGED loop
        /\ LET pnft == get_pnft_by_id(pnfts_db, pnft_id)
           IN IF pnft = 0
              THEN /\ resp' = NotFound("pNFT", pnft_id)
                   /\ UNCHANGED <<pnfts_db, owner_log>>
              ELSE LET \* pnft.current_owner = ...: pnft is the stored object,
                       \* so the record in the list changes
                       mutated == [pnfts_db EXCEPT ![pnft].current_owner = transfer.new_owner]
                       \* "Update in the database": the first position whose
                       \* record has that id is set to pnft
                       i == first_index(mutated, pnft_id)
                   IN /\ pnfts_db' = IF i = 0 THEN mutated
                                     ELSE [mutated EXCEPT ![i] = mutated[pnft]]
                      /\ resp' = Ok(mutated[pnft])
                      /\ owner_log' = (pnft_id :> transfer.new_owner) @@ owner_log
        /\ UNCHANGED <<assets_db, asset_counter, pnft_counter, asset_log, pnft_log>>

\* GET /assets
list_assets ==
    /\ req' = [op |-> "list_assets"]
    /\ UNCHANGED loop
    /\ resp' = Ok(assets_db)
    /\ UNCHANGED <<stores, asset_log, pnft_log, owner_log>>

\* GET /assets/{asset_id}
get_asset ==
    \E asset_id \in Ids :
        /\ req' = [op |-> "get_asset", asset_id |-> asset_id]
        /\ UNCHANGED loop
        /\ resp' = IF get_asset_by_id(assets_db, asset_id) = 0
                   THEN NotFound("Asset", asset_id)
                   ELSE Ok(assets_db[get_asset_by_id(assets_db, asset_id)])
        /\ UNCHANGED <<stores, asset_log, pnft_log, owner_log>>

\* Any request may arrive next.  GET / returns a constant banner and touches
\* no state; it is not an action here.
Next ==
    \/ create_asset
    \/ create_pnft
    \/ list_pnfts
    \/ get_pnft
    \/ transfer_pnft
    \/ list_assets
    \/ get_asset

Spec == Init /\ [][Next]_vars

(* -------------------------- generate_token_uri ------------------------- *)

\* Strings are sequences of one-character strings here, so that replace and
\* slicing act on characters.
HexChars == {"0", "1", "2", "3", "4", "5", "6", "7", "8", "9", "a", "b", "c", "d", "e", "f"}

\* str(uuid.uuid4()): 8-4-4-4-12 lower-case hex digits, the version digit 4,
\* the variant digit one of 8, 9, a, b.  Of the 30 random digits the ones at
\* odd places are a and the ones at even places are b.
uuid4_str(a, b, variant) ==
    <<a, b, a, b, a, b, a, b, "-",
      a, b, a, b, "-",
      "4", a, b, a, "-",
      variant, b, a, b, "-",
      a, b, a, b, a, b, a, b, a, b, a, b>>

Uuid4Strings ==
    {uuid4_str(a, b, variant) : a \in HexChars, b \in HexChars, variant \in {"8", "9", "a", "b"}}

\* s.replace('-', '')
remove_hyphens(s) == SelectSeq(s, LAMBDA c : c # "-")

\* s[:n] for n >= 0
slice_to(s, n) == SubSeq(s, 1, IF n < Len(s) THEN n ELSE Len(s))

\* f"ipfs://Qm{str(uuid.uuid4()).replace('-', '')[:44]}", uuid4 being the
\* string of the UUID drawn.
generate_token_uri(uuid4) ==
    <<"i", "p", "f", "s", ":", "/", "/", "Q", "m">> \o slice_to(remove_hyphens(uuid4), 44)

\* A call of the helper: it draws a UUID and returns the URI.
call_generate_token_uri ==
    \E uuid4 \in Uuid4Strings :
        /\ req' = [op |-> "generate_token_uri", uuid4 |-> uuid4]
        /\ UNCHANGED loop
        /\ resp' = [value |-> generate_token_uri(uuid4)]
        /\ UNCHANGED <<stores, asset_log, pnft_log, owner_log>>

\* The helper alone, called any number of times.
SpecTokenUri == Init /\ [][call_generate_token_uri]_vars

(* ------------------- handlers as tasks of the event loop ---------------- *)

\* create_asset, create_pnft and transfer_pnft are "async def" coroutines: the
\* event loop runs one task at a time and takes up another only when the
\* running one awaits or returns.  Here each statement of a handler is a step,
\* so that requests in flight could interleave wherever a handler gave up the
\* loop.  The L<n> positions are line numbers of src/main.py.

Tasks == 1..MaxTasks

history == <<req, resp, asset_log, pnft_log, owner_log>>

\* The loop executes a statement of task t only when it runs no other task.
Scheduled(t) == running \in {0, t}

\* Task t is inside its handler: it has begun and not returned.
InHandler(t) == tasks[t].pc \notin {"idle", "ready", "done"}

\* What is left of a task when its handler has returned or raised.
done_task == [pc |-> "done", op |-> "none", args |-> << >>, local |-> << >>]

\* A request for one of the three handlers arrives and becomes a task, the
\* next one in order of arrival.
submit ==
    \E t \in Tasks, op \in {"create_asset", "create_pnft", "transfer_pnft"} :
        /\ tasks[t].pc = "idle"
        /\ \A u \in 1..(t - 1) : tasks[u].pc # "idle"
        /\ tasks' = [tasks EXCEPT ![t].pc = "ready", ![t].op = op]
        /\ UNCHANGED <<stores, history, running>>

\* create_asset, line 91, followed by an await: the task gives up the loop
\* with the counter advanced and no record appended yet.
async_create_asset_L91_await ==
    \E t \in Tasks, asset \in AssetCreate :
        /\ Scheduled(t)
        /\ tasks[t].pc = "ready" /\ tasks[t].op = "create_asset"
        /\ asset_counter < MaxAssets
        /\ asset_counter' = asset_counter + 1
        /\ tasks' = [tasks EXCEPT ![t].pc = "L93", ![t].args = asset]
        /\ running' = 0
        /\ UNCHANGED <<assets_db, pnfts_db, pnft_counter, history>>

\* create_asset, line 91: asset_counter += 1
async_create_asset_L91 ==
    \E t \in Tasks, asset \in AssetCreate :
        /\ Scheduled(t)
        /\ tasks[t].pc = "ready" /\ tasks[t].op = "create_asset"
        /\ asset_counter < MaxAssets
        /\ asset_counter' = asset_counter + 1
        /\ tasks' = [tasks EXCEPT ![t].pc = "L93", ![t].args = asset]
        /\ running' = t
        /\ UNCHANGED <<assets_db, pnfts_db, pnft_counter, history>>

\* create_asset, lines 93-99: new_asset = Asset(id=asset_counter, ...)
async_create_asset_L93 ==
    \E t \in Tasks :
        /\ Scheduled(t)
        /\ tasks[t].pc = "L93"
        /\ tasks' = [tasks EXCEPT ![t].pc = "L101",
                                  ![t].local = [id |-> asset_counter,
                                                name |-> tasks[t].args.name,
                                                serial_number |-> tasks[t].args.serial_number,
                                                description |-> tasks[t].args.description,
                                                owner |-> tasks[t].args.owner]]
        /\ running' = t
        /\ UNCHANGED <<stores, history>>

\* create_asset, line 101: assets_db.append(new_asset)
async_create_asset_L101 ==
    \E t \in Tasks :
        /\ Scheduled(t)
        /\ tasks[t].pc = "L101"
        /\ assets_db' = Append(assets_db, tasks[t].local)
        /\ tasks' = [tasks EXCEPT ![t].pc = "L102"]
        /\ running' = t
        /\ UNCHANGED <<pnfts_db, asset_counter, pnft_counter, history>>

\* create_asset, line 102: return new_asset
async_create_asset_L102 ==
    \E t \in Tasks :
        /\ Scheduled(t)
        /\ tasks[t].pc = "L102"
        /\ req' = [op |-> "create_asset", asset |-> tasks[t].args]
        /\ resp' = Ok(tasks[t].local)
        /\ asset_log' = Append(asset_log, <<tasks[t].args, tasks[t].local>>)
        /\ tasks' = [tasks EXCEPT ![t] = done_task]
        /\ running' = 0
        /\ UNCHANGED <<stores, pnft_log, owner_log>>

\* create_pnft, lines 110-112: asset = get_asset_by_id(...); raise if None
async_create_pnft_L110 ==
    \E t \in Tasks, pnft \in pNFTCreate :
        /\ Scheduled(t)
        /\ tasks[t].pc = "ready" /\ tasks[t].op = "create_pnft"
        /\ IF get_asset_by_id(assets_db, pnft.asset_id) = 0
           THEN /\ req' = [op |-> "create_pnft", pnft |-> pnft]
                /\ resp' = NotFound("Asset", pnft.asset_id)
                /\ tasks' = [tasks EXCEPT ![t] = done_task]
                /\ running' = 0
           ELSE /\ tasks' = [tasks EXCEPT ![t].pc = "L114", ![t].args = pnft]
                /\ running' = t
                /\ UNCHANGED <<req, resp>>
        /\ UNCHANGED <<stores, asset_log, pnft_log, owner_log>>

\* create_pnft, line 114: pnft_counter += 1
async_create_pnft_L114 ==
    \E t \in Tasks :
        /\ Scheduled(t)
        /\ tasks[t].pc = "L114"
        /\ pnft_counter < MaxPnfts
        /\ pnft_counter' = pnft_counter + 1
        /\ tasks' = [tasks EXCEPT ![t].pc = "L116"]
        /\ running' = t
        /\ UNCHANGED <<assets_db, pnfts_db, asset_counter, history>>

\* create_pnft, lines 116-122: new_pnft = pNFT(id=pnft_counter, ...)
async_create_pnft_L116 ==
    \E t \in Tasks, now \in Timestamps :
        /\ Scheduled(t)
        /\ tasks[t].pc = "L116"
        /\ tasks' = [tasks EXCEPT ![t].pc = "L124",
                                  ![t].local = [id |-> pnft_counter,
                                                asset_id |-> tasks[t].args.asset_id,
                                                token_uri |-> tasks[t].args.token_uri,
                                                issued_date |-> now,
                                                current_owner |-> tasks[t].args.current_owner]]
        /\ running' = t
        /\ UNCHANGED <<stores, history>>

\* create_pnft, line 124: pnfts_db.append(new_pnft)
async_create_pnft_L124 ==
    \E t \in Tasks :
        /\ Scheduled(t)
        /\ tasks[t].pc = "L124"
        /\ pnfts_db' = Append(pnfts_db, tasks[t].local)
        /\ tasks' = [tasks EXCEPT ![t].pc = "L125"]
        /\ running' = t
        /\ UNCHANGED <<assets_db, asset_counter, pnft_counter, history>>

\* create_pnft, line 125: return new_pnft
async_create_pnft_L125 ==
    \E t \in Tasks :
        /\ Scheduled(t)
        /\ tasks[t].pc = "L125"
        /\ req' = [op |-> "create_pnft", pnft |-> tasks[t].args]
        /\ resp' = Ok(tasks[t].local)
        /\ pnft_log' = Append(pnft_log, tasks[t].local.id)
        /\ owner_log' = (tasks[t].local.id :> tasks[t].args.current_owner) @@ owner_log
        /\ tasks' = [tasks EXCEPT ![t] = done_task]
        /\ running' = 0
        /\ UNCHANGED <<stores, asset_log>>

\* transfer_pnft, lines 146-148: pnft = get_pnft_by_id(pnft_id); raise if None.
\* The local pnft is a reference: the position of the stored object.
async_transfer_pnft_L146 ==
    \E t \in Tasks, pnft_id \in Ids, transfer \in pNFTTransfer :
        /\ Scheduled(t)
        /\ tasks[t].pc = "ready" /\ tasks[t].op = "transfer_pnft"
        /\ LET args == [pnft_id |-> pnft_id, transfer |-> transfer]
               pnft == get_pnft_by_id(pnfts_db, pnft_id)
           IN IF pnft = 0
              THEN /\ req' = [op |-> "transfer_pnft", pnft_id |-> pnft_id, transfer |-> transfer]
                   /\ resp' = NotFound("pNFT", pnft_id)
                   /\ tasks' = [tasks EXCEPT ![t] = done_task]
                   /\ running' = 0
              ELSE /\ tasks' = [tasks EXCEPT ![t].pc = "L151", ![t].args = args,
                                             ![t].local = pnft]
                   /\ running' = t
                   /\ UNCHANGED <<req, resp>>
        /\ UNCHANGED <<stores, asset_log, pnft_log, owner_log>>

\* transfer_pnft, line 151: pnft.current_owner = transfer.new_owner
async_transfer_pnft_L151 ==
    \E t \in Tasks :
        /\ Scheduled(t)
        /\ tasks[t].pc = "L151"
        /\ pnfts_db' = [pnfts_db EXCEPT
                            ![tasks[t].local].current_owner = tasks[t].args.transfer.new_owner]
        /\ tasks' = [tasks EXCEPT ![t].pc = "L154"]
        /\ running' = t
        /\ UNCHANGED <<assets_db, asset_counter, pnft_counter, history>>

\* transfer_pnft, lines 154-157: the first stored pNFT with that id is set to pnft
async_transfer_pnft_L154 ==
    \E t \in Tasks :
        /\ Scheduled(t)
        /\ tasks[t].pc = "L154"
        /\ LET i == first_index(pnfts_db, tasks[t].args.pnft_id)
           IN pnfts_db' = IF i = 0 THEN pnfts_db
                          ELSE [pnfts_db EXCEPT ![i] = pnfts_db[tasks[t].local]]
        /\ tasks' = [tasks EXCEPT ![t].pc = "L159"]
        /\ running' = t
        /\ UNCHANGED <<assets_db, asset_counter, pnft_counter, history>>

\* transfer_pnft, line 159: return pnft
async_transfer_pnft_L159 ==
    \E t \in Tasks :
        /\ Scheduled(t)
        /\ tasks[t].pc = "L159"
        /\ req' = [op |-> "transfer_pnft", pnft_id |-> tasks[t].args.pnft_id,
                   transfer |-> tasks[t].args.transfer]
        /\ resp' = Ok(pnfts_db[tasks[t].local])
        /\ owner_log' = (tasks[t].args.pnft_id :> tasks[t].args.transfer.new_owner) @@ owner_log
        /\ tasks' = [tasks EXCEPT ![t] = done_task]
        /\ running' = 0
        /\ UNCHANGED <<stores, asset_log, pnft_log>>

NextAsync ==
    \/ submit
    \/ async_create_asset_L91
    \/ async_create_asset_L93
    \/ async_create_asset_L101
    \/ async_create_asset_L102
    \/ async_create_pnft_L110
    \/ async_create_pnft_L114
    \/ async_create_pnft_L116
    \/ async_create_pnft_L124
    \/ async_create_pnft_L125
    \/ async_transfer_pnft_L146
    \/ async_transfer_pnft_L151
    \/ async_transfer_pnft_L154
    \/ async_transfer_pnft_L159

SpecAsync == Init /\ [][NextAsync]_vars

(* ------------------------------- claims -------------------------------- *)

\* Some record of db has this id.
HasId(db, id) == \E i \in 1..Len(db) : db[i].id = id

\* C1: a create_pnft whose asset_id matches no Asset in the asset store
\* returns 404 and leaves pnfts_db and pnft_counter as they were.
C1_CreatePnftUnknownAsset ==
    [][ (req'.op = "create_pnft" /\ ~HasId(assets_db, req'.pnft.asset_id))
            => /\ resp'.status = 404
               /\ pnfts_db' = pnfts_db
               /\ pnft_counter' = pnft_counter ]_vars

\* A create_pnft was refused while both stores held records.
C1_Witness ==
    /\ req.op = "create_pnft"
    /\ resp.status = 404
    /\ Len(assets_db) > 0
    /\ Len(pnfts_db) > 0

\* C2: list_pnfts with an owner filter, the empty string included, returns
\* exactly the stored pNFTs whose current_owner is that string, in creation
\* order.
C2_ListFilterExact ==
    [][ (req'.op = "list_pnfts" /\ req'.owner # None)
            => resp' = Ok(SelectSeq(pnfts_db, LAMBDA p : p.current_owner = req'.owner[1])) ]_vars

\* C3: a successful transfer_pnft changes only the current_owner of the pNFT
\* with that id, to new_owner, and a get_pnft of that id served next returns
\* the record with the new owner.
C3_TransferFrame ==
    [][ /\ (req'.op = "transfer_pnft" /\ resp'.status = 200)
            => /\ HasId(pnfts_db, req'.pnft_id)
               /\ Len(pnfts_db') = Len(pnfts_db)
               /\ \A i \in 1..Len(pnfts_db) :
                    pnfts_db'[i] =
                        IF pnfts_db[i].id = req'.pnft_id
                        THEN [pnfts_db[i] EXCEPT !.current_owner = req'.transfer.new_owner]
                        ELSE pnfts_db[i]
               /\ resp'.body.id = req'.pnft_id
               /\ resp'.body.current_owner = req'.transfer.new_owner
        /\ (/\ req.op = "transfer_pnft" /\ resp.status = 200
            /\ req'.op = "get_pnft" /\ req'.pnft_id = req.pnft_id)
            => /\ resp'.status = 200
               /\ resp'.body = resp.body
               /\ resp'.body.current_owner = req.transfer.new_owner ]_vars

\* The first of two pNFTs of the same asset was transferred to Bob and the
\* second is still Alice's.
C3_Witness ==
    /\ req.op = "transfer_pnft"
    /\ resp.status = 200
    /\ req.pnft_id = 1
    /\ Len(pnfts_db) = 2
    /\ pnfts_db[1].current_owner = "Bob"
    /\ pnfts_db[2].current_owner = "Alice"
    /\ pnfts_db[1].asset_id = pnfts_db[2].asset_id

\* C4: in both stores the ids of the records are strictly increasing in list
\* order (so pairwise distinct), and every id a create returned is greater
\* than every id that store returned before.
C4_IdsStrictlyIncreasing ==
    /\ \A i, j \in 1..Len(assets_db) : i < j => assets_db[i].id < assets_db[j].id
    /\ \A i, j \in 1..Len(pnfts_db) : i < j => pnfts_db[i].id < pnfts_db[j].id
    /\ \A m, n \in 1..Len(asset_log) : m < n => asset_log[m][2].id < asset_log[n][2].id
    /\ \A m, n \in 1..Len(pnft_log) : m < n => pnft_log[m] < pnft_log[n]

\* Both stores hold two records.
C4_Witness ==
    /\ Len(assets_db) = 2
    /\ Len(pnfts_db) = 2
    /\ Len(asset_log) = 2
    /\ Len(pnft_log) = 2

\* C5: the n-th create_asset that succeeded returned id n and the n-th
\* create_pnft that succeeded returned id n, whatever was served in between.
C5_NthCreateReturnsN ==
    /\ \A n \in 1..Len(asset_log) : asset_log[n][2].id = n
    /\ \A n \in 1..Len(pnft_log) : pnft_log[n] = n

\* A second pNFT was just created, after two assets.
C5_Witness ==
    /\ req.op = "create_pnft"
    /\ resp.status = 200
    /\ resp.body.id = 2
    /\ Len(pnft_log) = 2
    /\ Len(asset_log) = 2

\* C6: every stored pNFT's asset_id is the id of a stored Asset.
C6_ReferentialIntegrity ==
    \A i \in 1..Len(pnfts_db) : HasId(assets_db, pnfts_db[i].asset_id)

\* Two pNFTs reference two different assets, and one of them was transferred.
C6_Witness ==
    /\ Len(pnfts_db) = 2
    /\ pnfts_db[1].asset_id # pnfts_db[2].asset_id
    /\ req.op = "transfer_pnft"
    /\ resp.status = 200

\* C7: a transfer_pnft whose id matches no stored pNFT returns 404 with a
\* message naming that id and changes neither store nor counter.
C7_TransferUnknownId ==
    [][ (req'.op = "transfer_pnft" /\ ~HasId(pnfts_db, req'.pnft_id))
            => /\ resp'.status = 404
               /\ resp'.detail = <<"pNFT with ID ", req'.pnft_id, " not found">>
               /\ UNCHANGED stores ]_vars

\* A transfer was refused while the pNFT store held two records.
C7_Witness ==
    /\ req.op = "transfer_pnft"
    /\ resp.status = 404
    /\ resp.detail[2] = req.pnft_id
    /\ Len(pnfts_db) = 2

\* C8: a get_asset of an id that a create_asset returned answers 200 with
\* that id and the name, serial_number, description and owner of that
\* create_asset's body, at any later point.
C8_AssetRoundTrip ==
    [][ req'.op = "get_asset"
            => \A n \in 1..Len(asset_log) :
                 asset_log[n][2].id = req'.asset_id
                    => /\ resp'.status = 200
                       /\ resp'.body = [id |-> req'.asset_id,
                                         name |-> asset_log[n][1].name,
                                         serial_number |-> asset_log[n][1].serial_number,
                                         description |-> asset_log[n][1].description,
                                         owner |-> asset_log[n][1].owner] ]_vars

\* The first of two assets was fetched after pNFTs were created and one was
\* transferred to an owner other than the asset's.
C8_Witness ==
    /\ req.op = "get_asset"
    /\ req.asset_id = 1
    /\ resp.status = 200
    /\ Len(asset_log) = 2
    /\ asset_log[1][1] # asset_log[2][1]
    /\ Len(pnfts_db) = 2
    /\ \E i \in 1..2 : /\ pnfts_db[i].asset_id = 1
                         /\ pnfts_db[i].current_owner # asset_log[1][1].owner

\* C9: get_asset and get_pnft answer 404 exactly when no record of their
\* store has the id, answer otherwise with the one stored record of that id,
\* and change no store and no counter.
C9_GetFoundOrNotFound ==
    [][ /\ req'.op = "get_asset"
            => /\ resp'.status = 404 <=> ~HasId(assets_db, req'.asset_id)
               /\ resp'.status # 404
                    => /\ resp'.status = 200
                       /\ Cardinality({i \in 1..Len(assets_db) :
                                            assets_db[i].id = req'.asset_id}) = 1
                       /\ \E i \in 1..Len(assets_db) :
                            assets_db[i].id = req'.asset_id /\ resp'.body = assets_db[i]
               /\ UNCHANGED stores
        /\ req'.op = "get_pnft"
            => /\ resp'.status = 404 <=> ~HasId(pnfts_db, req'.pnft_id)
               /\ resp'.status # 404
                    => /\ resp'.status = 200
                       /\ Cardinality({i \in 1..Len(pnfts_db) :
                                            pnfts_db[i].id = req'.pnft_id}) = 1
                       /\ \E i \in 1..Len(pnfts_db) :
                            pnfts_db[i].id = req'.pnft_id /\ resp'.body = pnfts_db[i]
               /\ UNCHANGED stores ]_vars

\* A get_pnft of id 0 was refused while the pNFT store held records.
C9_Witness ==
    /\ req.op = "get_pnft"
    /\ req.pnft_id = 0
    /\ resp.status = 404
    /\ Len(pnfts_db) = 2

C11_AssetsImmutable ==
    [][ /\ Len(assets_db') >= Len(assets_db)
        /\ \A i \in 1..Len(assets_db) : assets_db'[i] = assets_db[i]
        /\ req'.op # "create_asset" => UNCHANGED <<assets_db, asset_counter>>
        /\ req'.op = "create_asset" => SubSeq(assets_db', 1, Len(assets_db)) = assets_db ]_vars

\* A pNFT was transferred to somebody who is not the owner of its Asset.
C11_Witness ==
    /\ req.op = "transfer_pnft"
    /\ resp.status = 200
    /\ \E i \in 1..Len(assets_db) :
         /\ assets_db[i].id = resp.body.asset_id
         /\ assets_db[i].owner # resp.body.current_owner
         /\ assets_db[i] = asset_log[i][2]

\* Positions of the ids of a list of records.
IdsOf(db) == [i \in 1..Len(db) |-> db[i].id]

\* C12: list_assets and list_pnfts without a filter return the whole store,
\* every created record once and in creation order; a transfer keeps the number
\* of pNFTs and the position of each.
C12_ListAllInOrder ==
    [][ /\ req'.op = "list_assets"
            => /\ resp' = Ok(assets_db)
               /\ resp'.body = [n \in 1..Len(asset_log) |-> asset_log[n][2]]
        /\ (req'.op = "list_pnfts" /\ req'.owner = None)
            => /\ resp' = Ok(pnfts_db)
               /\ IdsOf(resp'.body) = pnft_log
        /\ req'.op = "transfer_pnft" => IdsOf(pnfts_db') = IdsOf(pnfts_db) ]_vars

\* All pNFTs were listed after the first of two changed hands.
C12_Witness ==
    /\ req.op = "list_pnfts"
    /\ req.owner = None
    /\ Len(resp.body) = 2
    /\ resp.body[1].current_owner # resp.body[2].current_owner
    /\ Len(assets_db) = 2

\* C16: each counter equals the length of its list, and the record at
\* position i of each list has id i.
C16_StoreShape ==
    /\ asset_counter = Len(assets_db)
    /\ pnft_counter = Len(pnfts_db)
    /\ \A i \in 1..Len(assets_db) : assets_db[i].id = i
    /\ \A i \in 1..Len(pnfts_db) : pnfts_db[i].id = i

\* Both stores are full, a create_pnft was refused and answered 404.
C16_Witness ==
    /\ Len(assets_db) = MaxAssets
    /\ Len(pnfts_db) = MaxPnfts
    /\ req.op = "create_pnft"
    /\ resp.status = 404

\* C17: create_pnft succeeds exactly when asset_id is the id of a stored
\* Asset: it is not refused because the Asset already has pNFTs or because
\* current_owner is not the Asset's owner.
C17_CreatePnftOnlyNeedsAsset ==
    /\ [][ req'.op = "create_pnft"
              => /\ resp'.status = 200 <=> HasId(assets_db, req'.pnft.asset_id)
                 /\ resp'.status = 200
                      => /\ pnfts_db' = Append(pnfts_db, resp'.body)
                         /\ resp'.body.asset_id = req'.pnft.asset_id
                         /\ resp'.body.current_owner = req'.pnft.current_owner ]_vars
    /\ [](pnft_counter < MaxPnfts
            => \A p \in pNFTCreate :
                 HasId(assets_db, p.asset_id)
                    => ENABLED (/\ create_pnft
                                /\ req' = [op |-> "create_pnft", pnft |-> p]
                                /\ resp'.status = 200))

\* An Asset has two pNFTs, the second just created for somebody who is not the
\* Asset's owner.
C17_Witness ==
    /\ req.op = "create_pnft"
    /\ resp.status = 200
    /\ Len(pnfts_db) = 2
    /\ pnfts_db[1].asset_id = pnfts_db[2].asset_id
    /\ \E i \in 1..Len(assets_db) :
         /\ assets_db[i].id = pnfts_db[2].asset_id
         /\ assets_db[i].owner # pnfts_db[2].current_owner

\* C15: the URI generate_token_uri returns is ipfs://Qm followed by exactly 44
\* hex-like characters, for every UUID drawn.
C15_TokenUriForm ==
    req.op = "generate_token_uri"
        => /\ Len(resp.value) = 9 + 44
           /\ SubSeq(resp.value, 1, 9) = <<"i", "p", "f", "s", ":", "/", "/", "Q", "m">>
           /\ \A i \in 10..Len(resp.value) : resp.value[i] \in HexChars

\* C13: a transfer_pnft of a stored id returns 200 whoever owns the pNFT and
\* whatever happened to it before, and the current_owner of every stored pNFT
\* is the owner named by the last successful transfer of its id, or by its
\* create_pnft when it was never transferred.
C13_LastTransferWins ==
    /\ [][ (req'.op = "transfer_pnft" /\ HasId(pnfts_db, req'.pnft_id))
              => resp'.status = 200 ]_vars
    /\ [](\A i \in 1..Len(pnfts_db) :
            /\ pnfts_db[i].id \in DOMAIN owner_log
            /\ pnfts_db[i].current_owner = owner_log[pnfts_db[i].id])

\* Of two pNFTs the second was just transferred to Alice, the first is Bob's.
C13_Witness ==
    /\ req.op = "transfer_pnft"
    /\ resp.status = 200
    /\ req.pnft_id = 2
    /\ req.transfer.new_owner = "Alice"
    /\ Len(pnfts_db) = 2
    /\ owner_log[1] = "Bob"
    /\ owner_log[2] = "Alice"

\* C14: with several create_asset, create_pnft and transfer_pnft requests in
\* flight, at most one task is inside its handler at any time; whenever a
\* handler begins or resumes, each counter equals the number of records of its
\* store; and no two records of a store have the same id.
C14_HandlersAtomic ==
    /\ Cardinality({t \in Tasks : InHandler(t)}) <= 1
    /\ \A t \in Tasks : InHandler(t) => running = t
    /\ running = 0 => /\ asset_counter = Len(assets_db)
                      /\ pnft_counter = Len(pnfts_db)
    /\ \A i, j \in 1..Len(assets_db) : i # j => assets_db[i].id # assets_db[j].id
    /\ \A i, j \in 1..Len(pnfts_db) : i # j => pnfts_db[i].id # pnfts_db[j].id

\* A create_asset has advanced the counter and not yet appended, while two
\* other requests are in flight, one of them another create_asset.
C14_Witness ==
    \E t, u, v \in Tasks :
        /\ t # u /\ t # v /\ u # v
        /\ tasks[t].pc = "L101"
        /\ asset_counter = Len(assets_db) + 1
        /\ tasks[u].pc = "ready" /\ tasks[u].op = "create_asset"
        /\ tasks[v].pc = "ready"

====
